---------------------------- MODULE Spec2Model ----------------------------
(***************************************************************************)
(* Model of src/index.js: a Telegram bot that polls TheTVDB once a minute  *)
(* for the latest complete episode of every tracked series, announces new  *)
(* episodes with a three-button reaction row, and keeps per-user reaction  *)
(* records in MongoDB.                                                     *)
(*                                                                         *)
(* The program is a single-threaded event loop.  A handler runs without    *)
(* interruption from the completion of one awaited call to the start of    *)
(* the next one, so every action below is "the awaited call completes and  *)
(* the handler runs up to its next await".                                 *)
(*                                                                         *)
(* The specifications share the variables:                                 *)
(*   SpecResolver   fetchLatestEpisode / fetchValidEpisodes on one         *)
(*                  provider catalogue                                     *)
(*   SpecReactions  the reaction handler, any interleaving                 *)
(*   SpecSerial     the reaction handler, taps of one user on one episode  *)
(*                  never overlapping                                      *)
(*   SpecDirectory  the add_series and remove handlers                     *)
(*   SpecCommands   add_series, latest_episode and list_series             *)
(*   Spec           the cron tick, checkForNewEpisode and the notification *)
(*   SpecFair       the scheduler of one series under fair scheduling      *)
(*   SpecRestart    the scheduler of one series across process restarts    *)
(*   SpecBot        the scheduler and every handler together               *)
(***************************************************************************)
EXTENDS Integers, Sequences, FiniteSets

VARIABLES
    series,                 \* seriesCollection: documents in insertion order
    reactions,              \* reactionsCollection: documents in insertion order
    lastNotifiedEpisodes,   \* the in-memory watermark, seriesId -> episode id
    checks,                 \* checkForNewEpisode invocations in flight
    tvdb,                   \* per series, how many episodes the provider lists
    delivered,              \* episode ids of the photos the chat accepted
    rh,                     \* reaction handlers in flight
    dh,                     \* add_series and remove handlers in flight
    ch,                     \* latest_episode, list_series, series selection
                            \* and back_to_list handlers in flight
    catalogue,              \* SpecResolver: the provider's answers for one call
    outcome                 \* SpecResolver: what fetchLatestEpisode returned

vars == << series, reactions, lastNotifiedEpisodes, checks, tvdb, delivered,
           rh, dh, ch, catalogue, outcome >>

-----------------------------------------------------------------------------
(* Bounds of the model *)

\* seasons a provider summary may list
MaxSeasons == 3
\* checkForNewEpisode invocations that may be in flight together
MaxChecks == 2
\* episodes the provider may come to list for one series
MaxPublished == 3
\* documents the reactions collection may hold
MaxRecords == 3
\* documents the series collection may hold
MaxSeries == 3

Series    == {"s1", "s2"}
Users     == {"u1", "u2"}
Reactions == {"like", "love", "angry"}

-----------------------------------------------------------------------------
(* JavaScript values.  An episode id comes from the provider's JSON as a   *)
(* number; `like_${id}` formats it into the callback data, and the regexp  *)
(* match of the reaction handler yields it back as a string.  MongoDB's    *)
(* equality match, like ===, never equates a number with a string.         *)

Num(n) == [type |-> "number", v |-> n]
Str(n) == [type |-> "string", v |-> n]
Undefined == [type |-> "undefined", v |-> 0]
Null == [type |-> "null", v |-> 0]

\* `like_${id}`: the template literal formats any id as a string
CallbackData(reaction, id) == [reaction |-> reaction, id |-> Str(id.v)]

\* ctx.match[2]: the id part of the callback data, a string
MatchEpisodeId(data) == data.id

\* JavaScript truthiness of a provider text field ("" stands for an empty,
\* null or absent field)
Truthy(text) == text /= ""

-----------------------------------------------------------------------------
(* The metadata provider.  A response either makes fetch/json throw, or is *)
(* a JSON body without `data`, or carries data.                            *)

Throw  == [kind |-> "throw",  data |-> << >>]
NoData == [kind |-> "nodata", data |-> << >>]
Data(d) == [kind |-> "data", data |-> d]

\* positions of a season's episode list
EpisodeSlots == {1, 2}

\* what an episode record of the provider may lack
EpisodeKinds == {"complete", "noName", "noOverview", "noFilename"}

\* the episode the provider lists at place pos of season n (ids from base)
ProviderEpisode(base, n, pos, kind) ==
    [id |-> Num(base + 10 * n + pos),
     episodeName |-> IF kind = "noName" THEN "" ELSE "title",
     overview |-> IF kind = "noOverview" THEN "" ELSE "synopsis",
     filename |-> IF kind = "noFilename" THEN "" ELSE "thumb.jpg",
     airedSeason |-> n,
     airedEpisodeNumber |-> pos]

Max(S) == CHOOSE m \in S : \A x \in S : x <= m

RECURSIVE Ascending(_)
Ascending(S) ==
    IF S = {} THEN << >> ELSE Append(Ascending(S \ {Max(S)}), Max(S))

\* the provider lists aired seasons in ascending order
SeasonLists == { Ascending(S) : S \in SUBSET (1 .. MaxSeasons) }

SummaryResponses == {Throw, NoData} \cup { Data(l) : l \in SeasonLists }

\* the shapes of a season's answer: it throws, has no data, or lists up to
\* two episodes, each complete or lacking one field
SeasonShapes ==
    {Throw, NoData} \cup
    { Data([i \in 1 .. len |-> k[i]]) :
        len \in {0} \cup EpisodeSlots, k \in [EpisodeSlots -> EpisodeKinds] }

\* the answer of shape `shape` for season n of the series whose ids start at base
SeasonResponse(base, n, shape) ==
    [kind |-> shape.kind,
     data |-> [i \in 1 .. Len(shape.data) |->
                 ProviderEpisode(base, n, i, shape.data[i])]]

Listed(summary) == { summary.data[i] : i \in 1 .. Len(summary.data) }

\* the catalogue with the summary `summary` and the season answers of the
\* shapes g; seasons the summary does not list are never asked for
Catalogue(base, summary, g) ==
    [summary |-> summary,
     season |-> [n \in 1 .. MaxSeasons |->
                   IF n \in DOMAIN g
                   THEN SeasonResponse(base, n, g[n]) ELSE NoData]]

-----------------------------------------------------------------------------
(* fetchValidEpisodes and fetchLatestEpisode *)

\* a filter that forgets the synopsis
EligibleWithoutOverview(ep) ==
    Truthy(ep.episodeName) /\ Truthy(ep.filename)

\* line 46: ep.episodeName && ep.overview && ep.filename
Eligible(ep) ==
    Truthy(ep.episodeName) /\ Truthy(ep.overview) /\ Truthy(ep.filename)

\* a season fetch that catches its own failure and reports an empty season
fetchValidEpisodesSwallowing(cat, season) ==
    LET episodesData == cat.season[season] IN
    IF episodesData.kind /= "data" \/ Len(episodesData.data) = 0
    THEN [thrown |-> FALSE, value |-> << >>]
    ELSE [thrown |-> FALSE, value |-> SelectSeq(episodesData.data, Eligible)]

\* lines 33-47.  thrown: the awaited fetch or json() rejected
fetchValidEpisodes(cat, season) ==
    LET episodesData == cat.season[season] IN
    IF episodesData.kind = "throw"
    THEN [thrown |-> TRUE, value |-> << >>]
    ELSE IF episodesData.kind = "nodata" \/ Len(episodesData.data) = 0
    THEN [thrown |-> FALSE, value |-> << >>]
    ELSE [thrown |-> FALSE, value |-> SelectSeq(episodesData.data, Eligible)]

SummaryFetch == [what |-> "summary", season |-> 0]
SeasonFetch(n) == [what |-> "season", season |-> n]

\* lines 65-73: pop the last listed season, fetch it, return its last valid
\* episode or go on with the seasons left.  fetched: the provider calls made
RECURSIVE WalkSeasons(_, _, _)
WalkSeasons(cat, airedSeasons, fetched) ==
    IF Len(airedSeasons) = 0
    THEN [thrown |-> FALSE, value |-> Null, fetched |-> fetched]
    ELSE LET latestSeason == airedSeasons[Len(airedSeasons)]
             rest == SubSeq(airedSeasons, 1, Len(airedSeasons) - 1)
             validEpisodes == fetchValidEpisodes(cat, latestSeason)
             made == Append(fetched, SeasonFetch(latestSeason))
         IN  IF validEpisodes.thrown
             THEN [thrown |-> TRUE, value |-> Null, fetched |-> made]
             ELSE IF Len(validEpisodes.value) > 0
             THEN [thrown |-> FALSE,
                   value |-> validEpisodes.value[Len(validEpisodes.value)],
                   fetched |-> made]
             ELSE WalkSeasons(cat, rest, made)

\* lines 53-73: the body of the try block
TryLatestEpisode(cat) ==
    IF cat.summary.kind = "throw"
    THEN [thrown |-> TRUE, value |-> Null, fetched |-> << SummaryFetch >>]
    ELSE IF cat.summary.kind = "nodata" \/ Len(cat.summary.data) = 0
    THEN [thrown |-> FALSE, value |-> Null, fetched |-> << SummaryFetch >>]
    ELSE WalkSeasons(cat, cat.summary.data, << SummaryFetch >>)

\* lines 50-78: the catch block turns any exception of the body into null.
\* caught: the catch block ran; thrown: an exception left the function
fetchLatestEpisode(cat) ==
    LET body == TryLatestEpisode(cat) IN
    [value |-> IF body.thrown THEN Null ELSE body.value,
     fetched |-> body.fetched,
     caught |-> body.thrown,
     thrown |-> FALSE]

Pending == [value |-> Null, fetched |-> << >>, caught |-> FALSE, thrown |-> FALSE]

-----------------------------------------------------------------------------
(* The reactions collection and getReactions *)

Reaction(episodeId, userId, reaction) ==
    [episodeId |-> episodeId, userId |-> userId, reaction |-> reaction]

\* the places of the documents matching { episodeId, userId }
Matching(coll, episodeId, userId) ==
    { i \in 1 .. Len(coll) :
        coll[i].episodeId = episodeId /\ coll[i].userId = userId }

Min(S) == CHOOSE m \in S : \A x \in S : m <= x

\* reactionsCollection.findOne({ episodeId, userId }): the first match or null
findOne(coll, episodeId, userId) ==
    LET found == Matching(coll, episodeId, userId) IN
    IF found = {} THEN Null ELSE coll[Min(found)]

\* an update that adds a document instead of changing the one it matched
updateOneAppending(coll, episodeId, userId, reaction) ==
    Append(coll, [episodeId |-> episodeId, userId |-> userId, reaction |-> reaction])

\* reactionsCollection.updateOne({ episodeId, userId }, { $set: { reaction } }):
\* the first match is changed, no match changes nothing
updateOne(coll, episodeId, userId, reaction) ==
    LET found == Matching(coll, episodeId, userId) IN
    IF found = {} THEN coll
    ELSE [coll EXCEPT ![Min(found)].reaction = reaction]

\* reactionsCollection.insertOne(doc)
insertOne(coll, doc) == Append(coll, doc)

\* lines 104-107: $match { episodeId }, then $group by reaction with $sum 1.
\* Only reactions that occur among the matched documents get a group
Aggregate(coll, episodeId) ==
    LET matched == { i \in 1 .. Len(coll) : coll[i].episodeId = episodeId }
        values == { coll[i].reaction : i \in matched }
    IN  { [id |-> r,
           count |-> Cardinality({ i \in matched : coll[i].reaction = r })] :
          r \in values }

\* lines 103-120: the three counts start at zero and each group overwrites
\* the count of its reaction
getReactions(coll, episodeId) ==
    LET groups == Aggregate(coll, episodeId) IN
    [r \in Reactions |->
        IF \E g \in groups : g.id = r
        THEN (CHOOSE g \in groups : g.id = r).count
        ELSE 0]

NoCounts == [r \in Reactions |-> 0]

-----------------------------------------------------------------------------
(* The reaction handler, lines 262-301 *)

RHandlers == {"h1", "h2"}

\* the episodes whose notification carries a button row in the chat
AnnouncedIds == {Num(111)}

\* what the reactions collection may hold when the process starts: nothing,
\* or a document left by an earlier run for another episode
PersistedReactions == { << >>, << Reaction(Str(211), "u2", "love") >> }

Buttons == { CallbackData(r, id) : r \in Reactions, id \in AnnouncedIds }

\* a handler that is not running: never started, or ended with the toast
\* after the buttons were re-rendered ("answered"), with the toast after a
\* rejected edit was caught ("unrefreshed"), by the early return ("silent")
\* or by a rejected store call ("failed")
Resting == {"idle", "answered", "unrefreshed", "silent", "failed"}

Rest(pc) ==
    [pc |-> pc, episodeId |-> Null, userId |-> "", reaction |-> "",
     op |-> "", counts |-> NoCounts]

\* handlers whose insertOne may still add a document (documents are never
\* deleted, so a handler that will find one does not insert)
Arriving ==
    { h \in RHandlers :
        \/ /\ rh[h].pc = "findOne"
           /\ findOne(reactions, rh[h].episodeId, rh[h].userId) = Null
        \/ /\ rh[h].pc = "write"
           /\ rh[h].op = "insertOne" }

\* lines 263-267: the handler starts and awaits findOne
Tap(h, data, user) ==
    /\ rh[h].pc \in Resting
    /\ \/ findOne(reactions, MatchEpisodeId(data), user) /= Null
       \/ Len(reactions) + Cardinality(Arriving) < MaxRecords
    /\ rh' = [rh EXCEPT ![h] =
                [pc |-> "findOne", episodeId |-> MatchEpisodeId(data),
                 userId |-> user, reaction |-> data.reaction,
                 op |-> "", counts |-> NoCounts]]
    /\ UNCHANGED << series, reactions, lastNotifiedEpisodes, checks, tvdb,
                    delivered, dh, catalogue, outcome, ch >>

\* a handler that inserts whatever findOne found
DecideInsertAlways(existingReaction, reaction) == "insertOne"

\* lines 269-280: which store call the handler makes for what findOne found;
\* "return" is the early return of line 276
Decide(existingReaction, reaction) ==
    IF existingReaction /= Null
    THEN IF existingReaction.reaction /= reaction THEN "updateOne" ELSE "return"
    ELSE "insertOne"

\* lines 267-280: findOne returns; the handler returns early or awaits its write
FindOneReturns(h) ==
    /\ rh[h].pc = "findOne"
    /\ LET existingReaction ==
               findOne(reactions, rh[h].episodeId, rh[h].userId)
           op == Decide(existingReaction, rh[h].reaction)
       IN  rh' = [rh EXCEPT ![h] =
                    IF op = "return" THEN Rest("silent")
                    ELSE [rh[h] EXCEPT !.pc = "write", !.op = op]]
    /\ UNCHANGED << series, reactions, lastNotifiedEpisodes, checks, tvdb,
                    delivered, dh, catalogue, outcome, ch >>

\* the store after the write the handler awaits
Written(coll, op, episodeId, userId, reaction) ==
    IF op = "updateOne"
    THEN updateOne(coll, episodeId, userId, reaction)
    ELSE insertOne(coll, Reaction(episodeId, userId, reaction))

\* lines 267-280 run with no other handler in between: the store after one
\* tap of `reaction` by userId on episodeId
applyReaction(coll, episodeId, userId, reaction) ==
    LET op == Decide(findOne(coll, episodeId, userId), reaction) IN
    IF op = "return" THEN coll
    ELSE Written(coll, op, episodeId, userId, reaction)

\* lines 271-282: the write returns and the handler awaits getReactions.
\* userId and reaction are not read by the store calls that follow
WriteReturns(h) ==
    /\ rh[h].pc = "write"
    /\ reactions' = Written(reactions, rh[h].op, rh[h].episodeId,
                            rh[h].userId, rh[h].reaction)
    /\ rh' = [rh EXCEPT ![h] =
                [Rest("aggregate") EXCEPT !.episodeId = rh[h].episodeId,
                                          !.op = rh[h].op]]
    /\ UNCHANGED << series, lastNotifiedEpisodes, checks, tvdb, delivered,
                    dh, catalogue, outcome, ch >>

\* lines 282-295: the tally arrives and the handler awaits the edit
AggregateReturns(h) ==
    /\ rh[h].pc = "aggregate"
    /\ rh' = [rh EXCEPT ![h].pc = "edit", ![h].op = "",
                        ![h].counts = getReactions(reactions, rh[h].episodeId)]
    /\ UNCHANGED << series, reactions, lastNotifiedEpisodes, checks, tvdb,
                    delivered, dh, catalogue, outcome, ch >>

\* a handler whose rejected edit is not caught and ends it
EditReturnsUncaught(h, ok) ==
    /\ rh[h].pc = "edit"
    /\ ok \in BOOLEAN
    /\ rh' = [rh EXCEPT ![h] = Rest(IF ok THEN "answered" ELSE "failed")]
    /\ UNCHANGED << series, reactions, lastNotifiedEpisodes, checks, tvdb,
                    delivered, dh, ch, catalogue, outcome >>

\* lines 294-300: the edit succeeds or its failure is caught; either way the
\* handler goes on to answerCbQuery
EditReturns(h, ok) ==
    /\ rh[h].pc = "edit"
    /\ ok \in BOOLEAN
    /\ rh' = [rh EXCEPT ![h] = Rest(IF ok THEN "answered" ELSE "unrefreshed")]
    /\ UNCHANGED << series, reactions, lastNotifiedEpisodes, checks, tvdb,
                    delivered, dh, catalogue, outcome, ch >>

\* an awaited store call (findOne, the write, the aggregate) rejects: nothing
\* catches it, the handler ends there and the store is as it was
StoreRejects(h) ==
    /\ rh[h].pc \in {"findOne", "write", "aggregate"}
    /\ rh' = [rh EXCEPT ![h] = Rest("failed")]
    /\ UNCHANGED << series, reactions, lastNotifiedEpisodes, checks, tvdb,
                    delivered, dh, catalogue, outcome, ch >>

-----------------------------------------------------------------------------
(* The provider's catalogue of a tracked series.  Every publication opens  *)
(* a season with one episode; the episode of the newest season is still a *)
(* placeholder without synopsis and is completed by the next publication. *)

SeriesBase(seriesId) == IF seriesId = "s1" THEN 100 ELSE 200

SeriesCatalogue(seriesId, published) ==
    [summary |-> Data([k \in 1 .. published |-> k]),
     season |-> [k \in 1 .. published |->
                   Data(<< ProviderEpisode(SeriesBase(seriesId), k, 1,
                             IF k < published THEN "complete" ELSE "noOverview") >>)]]

\* what the provider may answer one fetchLatestEpisode call: the catalogue,
\* or the catalogue with the summary fetch or the fetch of the newest season
\* failing
ProviderAnswers(seriesId, published) ==
    LET cat == SeriesCatalogue(seriesId, published) IN
    {cat, [cat EXCEPT !.summary = Throw]}
      \cup IF published = 0 THEN {}
           ELSE {[cat EXCEPT !.season[published] = Throw]}

-----------------------------------------------------------------------------
(* checkForNewEpisode, sendLatestEpisodeNotification and the cron tick *)

\* a check that is not running: never started, or ended after the watermark
\* write ("notified"), without a dispatch ("nothing") or by a rejected
\* getReactions or sendPhoto ("failed")
Ended == {"idle", "notified", "nothing", "failed"}

Check(pc, seriesId, episode, counts) ==
    [pc |-> pc, seriesId |-> seriesId, episode |-> episode, counts |-> counts]

Slots == 1 .. MaxChecks

FreeSlots == { c \in Slots : checks[c].pc \in Ended }

\* the k-th free slot, in ascending order
RECURSIVE FreeSlot(_, _)
FreeSlot(free, k) ==
    IF k = 1 THEN Min(free) ELSE FreeSlot(free \ {Min(free)}, k - 1)

\* lines 163-168 and 154-155: find().toArray() returns the tracked series and
\* forEach starts one check per document; each check runs up to its await
\* of fetchLatestEpisode
Tick ==
    /\ Len(series) > 0
    /\ Cardinality(FreeSlots) >= Len(series)
    /\ checks' =
         [c \in Slots |->
            IF \E k \in 1 .. Len(series) : FreeSlot(FreeSlots, k) = c
            THEN Check("fetch",
                       series[CHOOSE k \in 1 .. Len(series) :
                                 FreeSlot(FreeSlots, k) = c].seriesId,
                       Null, NoCounts)
            ELSE checks[c]]
    /\ UNCHANGED << series, reactions, lastNotifiedEpisodes, tvdb, delivered,
                    rh, dh, catalogue, outcome, ch >>

\* a check that notifies whatever the watermark holds
IsNewAlways(latestEpisode, lastNotified) == latestEpisode /= Null

\* line 156: latestEpisode && latestEpisode.id !== lastNotifiedEpisodes[seriesId]
IsNew(latestEpisode, lastNotified) ==
    latestEpisode /= Null /\ latestEpisode.id /= lastNotified

\* lines 155-157 and 123-137: fetchLatestEpisode returns; the check ends, or
\* sendLatestEpisodeNotification starts and awaits getReactions
FetchReturns(c) ==
    /\ checks[c].pc = "fetch"
    /\ \E cat \in ProviderAnswers(checks[c].seriesId, tvdb[checks[c].seriesId]) :
          LET latestEpisode == fetchLatestEpisode(cat).value IN
          checks' = [checks EXCEPT ![c].episode = latestEpisode,
                       ![c].pc =
                          IF IsNew(latestEpisode,
                                   lastNotifiedEpisodes[checks[c].seriesId])
                          THEN "tally" ELSE "nothing"]
    /\ UNCHANGED << series, reactions, lastNotifiedEpisodes, tvdb, delivered,
                    rh, dh, catalogue, outcome, ch >>

\* a tally read that stores a document for the episode it renders
TallyReturnsSeeding(c) ==
    /\ checks[c].pc = "tally"
    /\ checks' = [checks EXCEPT ![c].pc = "send",
                    ![c].counts = getReactions(reactions, checks[c].episode.id)]
    /\ reactions' = insertOne(reactions, Reaction(checks[c].episode.id, "", "like"))
    /\ UNCHANGED << series, lastNotifiedEpisodes, tvdb, delivered, rh, dh, ch,
                    catalogue, outcome >>

\* lines 137-139: getReactions(id) returns, with the id as the provider gave
\* it, and the notification awaits sendPhoto
TallyReturns(c) ==
    /\ checks[c].pc = "tally"
    /\ checks' = [checks EXCEPT ![c].pc = "send",
                    ![c].counts = getReactions(reactions, checks[c].episode.id)]
    /\ UNCHANGED << series, reactions, lastNotifiedEpisodes, tvdb, delivered,
                    rh, dh, catalogue, outcome, ch >>

\* a rejected getReactions that takes every running check down with it
TallyRejectsAbortingAll(c) ==
    /\ checks[c].pc = "tally"
    /\ checks' = [d \in Slots |->
                    IF checks[d].pc \in Ended THEN checks[d]
                    ELSE [checks[d] EXCEPT !.pc = "failed", !.counts = NoCounts]]
    /\ UNCHANGED << series, reactions, lastNotifiedEpisodes, tvdb, delivered,
                    rh, dh, catalogue, outcome, ch >>

\* line 137: getReactions rejects; sendLatestEpisodeNotification and the
\* check reject with it, and line 158 is not reached
TallyRejects(c) ==
    /\ checks[c].pc = "tally"
    /\ checks' = [checks EXCEPT ![c].pc = "failed"]
    /\ UNCHANGED << series, reactions, lastNotifiedEpisodes, tvdb, delivered,
                    rh, dh, catalogue, outcome, ch >>

\* a check that does not write the watermark after its photo was accepted
SendReturnsForgetting(c) ==
    /\ checks[c].pc = "send"
    /\ delivered' = delivered \cup {checks[c].episode.id}
    /\ checks' = [checks EXCEPT ![c].pc = "notified", ![c].counts = NoCounts]
    /\ UNCHANGED << series, reactions, lastNotifiedEpisodes, tvdb, rh, dh, ch,
                    catalogue, outcome >>

\* lines 139-158: the chat accepts the photo and the check writes the watermark
SendReturns(c) ==
    /\ checks[c].pc = "send"
    /\ delivered' = delivered \cup {checks[c].episode.id}
    /\ lastNotifiedEpisodes' =
         [lastNotifiedEpisodes EXCEPT ![checks[c].seriesId] = checks[c].episode.id]
    /\ checks' = [checks EXCEPT ![c].pc = "notified", ![c].counts = NoCounts]
    /\ UNCHANGED << series, reactions, tvdb, rh, dh, catalogue, outcome, ch >>

\* a rejected sendPhoto after which the watermark is written all the same
SendRejectsMarking(c) ==
    /\ checks[c].pc = "send"
    /\ lastNotifiedEpisodes' =
         [lastNotifiedEpisodes EXCEPT ![checks[c].seriesId] = checks[c].episode.id]
    /\ checks' = [checks EXCEPT ![c].pc = "failed", ![c].counts = NoCounts]
    /\ UNCHANGED << series, reactions, tvdb, delivered, rh, dh, catalogue,
                    outcome, ch >>

\* line 139: sendPhoto rejects; the check rejects and line 158 is not reached
SendRejects(c) ==
    /\ checks[c].pc = "send"
    /\ checks' = [checks EXCEPT ![c].pc = "failed", ![c].counts = NoCounts]
    /\ UNCHANGED << series, reactions, lastNotifiedEpisodes, tvdb, delivered,
                    rh, dh, catalogue, outcome, ch >>

\* the provider lists one more episode of the series
Publish(seriesId) ==
    /\ tvdb[seriesId] < MaxPublished
    /\ tvdb' = [tvdb EXCEPT ![seriesId] = @ + 1]
    /\ UNCHANGED << series, reactions, lastNotifiedEpisodes, checks, delivered,
                    rh, dh, catalogue, outcome, ch >>

-----------------------------------------------------------------------------
(* The series collection, add_series (lines 173-181) and remove (225-236) *)

\* the places of the documents matching { seriesId }
MatchingSeries(coll, seriesId) ==
    { k \in 1 .. Len(coll) : coll[k].seriesId = seriesId }

\* a findOne that never finds a document
findOneSeriesMissing(coll, seriesId) == Null

\* seriesCollection.findOne({ seriesId }): the first match or null
findOneSeries(coll, seriesId) ==
    LET found == MatchingSeries(coll, seriesId) IN
    IF found = {} THEN Null ELSE coll[Min(found)]

\* seriesCollection.deleteOne({ seriesId }): the first match is removed
deleteOne(coll, seriesId) ==
    LET found == MatchingSeries(coll, seriesId) IN
    IF found = {} THEN coll
    ELSE SubSeq(coll, 1, Min(found) - 1) \o SubSeq(coll, Min(found) + 1, Len(coll))

DHandlers == {"d1", "d2"}

\* a handler that is not running: never started, or ended with the reply
\* that the series was added ("added"), with the reply of line 179
\* ("rejected"), with the text that the series was removed ("removed"), or
\* by a rejected store or chat call ("failed")
Quieted == {"idle", "added", "rejected", "removed", "failed"}

Quiet(pc) == [pc |-> pc, seriesId |-> ""]

\* the words of an add_series message after the command: a series id or none
AddArguments == Series \cup {""}

\* add_series handlers whose insertOne may still add a document
Adding == { h \in DHandlers : dh[h].pc \in {"findOne", "insertOne"} }

\* lines 174-175 and 179: without an id the handler replies at once, with an
\* id it awaits findOne
AddSeries(h, seriesId) ==
    /\ dh[h].pc \in Quieted
    /\ Len(series) + Cardinality(Adding) < MaxSeries
    /\ dh' = [dh EXCEPT ![h] =
                IF Truthy(seriesId)
                THEN [pc |-> "findOne", seriesId |-> seriesId]
                ELSE Quiet("rejected")]
    /\ UNCHANGED << series, reactions, lastNotifiedEpisodes, checks, tvdb,
                    delivered, rh, catalogue, outcome, ch >>

\* lines 175-179: findOne returns; the handler awaits insertOne when nothing
\* was found and replies that the series is already added otherwise
AddFindOneReturns(h) ==
    /\ dh[h].pc = "findOne"
    /\ dh' = [dh EXCEPT ![h] =
                IF findOneSeries(series, dh[h].seriesId) = Null
                THEN [dh[h] EXCEPT !.pc = "insertOne"]
                ELSE [dh[h] EXCEPT !.pc = "rejected"]]
    /\ UNCHANGED << series, reactions, lastNotifiedEpisodes, checks, tvdb,
                    delivered, rh, catalogue, outcome, ch >>

\* lines 176-177: insertOne returns and the handler replies
AddInsertReturns(h) ==
    /\ dh[h].pc = "insertOne"
    /\ series' = Append(series, [seriesId |-> dh[h].seriesId])
    /\ dh' = [dh EXCEPT ![h] = Quiet("added")]
    /\ UNCHANGED << reactions, lastNotifiedEpisodes, checks, tvdb, delivered,
                    rh, catalogue, outcome, ch >>

\* lines 226-228: the remove button of a series is tapped; the handler awaits
\* deleteOne
RemoveSeries(h, seriesId) ==
    /\ dh[h].pc \in Quieted
    /\ dh' = [dh EXCEPT ![h] = [pc |-> "deleteOne", seriesId |-> seriesId]]
    /\ UNCHANGED << series, reactions, lastNotifiedEpisodes, checks, tvdb,
                    delivered, rh, catalogue, outcome, ch >>

\* lines 228-229: deleteOne returns and the handler awaits editMessageText
DeleteReturns(h) ==
    /\ dh[h].pc = "deleteOne"
    /\ series' = deleteOne(series, dh[h].seriesId)
    /\ dh' = [dh EXCEPT ![h].pc = "editText"]
    /\ UNCHANGED << reactions, lastNotifiedEpisodes, checks, tvdb, delivered,
                    rh, catalogue, outcome, ch >>

\* lines 229-235: the chat shows that the series was removed
RemoveEditReturns(h) ==
    /\ dh[h].pc = "editText"
    /\ dh' = [dh EXCEPT ![h] = Quiet("removed")]
    /\ UNCHANGED << series, reactions, lastNotifiedEpisodes, checks, tvdb,
                    delivered, rh, catalogue, outcome, ch >>

\* an awaited call of a handler (findOne, insertOne, deleteOne or the edit)
\* rejects: nothing catches it and the handler ends there
DirectoryRejects(h) ==
    /\ dh[h].pc \notin Quieted
    /\ dh' = [dh EXCEPT ![h] = Quiet("failed")]
    /\ UNCHANGED << series, reactions, lastNotifiedEpisodes, checks, tvdb,
                    delivered, rh, catalogue, outcome, ch >>

-----------------------------------------------------------------------------
(* latest_episode (lines 184-192), list_series (195-207), the selection of *)
(* a series (210-222) and back_to_list (239-255)                           *)

CHandlers == {"c1", "c2"}

\* a handler that is not running: never started, or ended after a reply was
\* sent to the chat ("replied": a text of ctx.reply or the episode photo),
\* after the message under the buttons was rewritten ("edited"), or by a
\* rejected store or chat call, with nothing sent ("failed")
Finished == {"idle", "replied", "edited", "failed"}

Command(pc, command, seriesId, episode, counts) ==
    [pc |-> pc, command |-> command, seriesId |-> seriesId,
     episode |-> episode, counts |-> counts]

\* an ended handler; its locals are gone
Finish(pc) == Command(pc, "", "", Null, NoCounts)

\* what the provider may answer a latest_episode call: for an id it knows as
\* the scheduler's calls are answered, for anything else (no argument makes
\* the id undefined) a body without data or a failed request
LatestAnswers(seriesId) ==
    IF seriesId \in Series
    THEN ProviderAnswers(seriesId, tvdb[seriesId])
    ELSE {[SeriesCatalogue(seriesId, 0) EXCEPT !.summary = NoData],
          [SeriesCatalogue(seriesId, 0) EXCEPT !.summary = Throw]}

\* lines 185-186: the handler starts and awaits fetchLatestEpisode
LatestEpisode(h, seriesId) ==
    /\ ch[h].pc \in Finished
    /\ ch' = [ch EXCEPT ![h] =
                Command("fetch", "latest_episode", seriesId, Null, NoCounts)]
    /\ UNCHANGED << series, reactions, lastNotifiedEpisodes, checks, tvdb,
                    delivered, rh, dh, catalogue, outcome >>

\* lines 186-190 and 123-137: fetchLatestEpisode returns; with an episode
\* sendLatestEpisodeNotification starts and awaits getReactions, without one
\* the handler replies that the fetch failed
LatestFetchReturns(h) ==
    /\ ch[h].pc = "fetch"
    /\ \E cat \in LatestAnswers(ch[h].seriesId) :
          LET latestEpisode == fetchLatestEpisode(cat).value IN
          ch' = [ch EXCEPT ![h] =
                   IF latestEpisode /= Null
                   THEN [ch[h] EXCEPT !.pc = "tally", !.episode = latestEpisode]
                   ELSE Finish("replied")]
    /\ UNCHANGED << series, reactions, lastNotifiedEpisodes, checks, tvdb,
                    delivered, rh, dh, catalogue, outcome >>

\* lines 137-139: getReactions(id) returns and the notification awaits sendPhoto
LatestTallyReturns(h) ==
    /\ ch[h].pc = "tally"
    /\ ch' = [ch EXCEPT ![h].pc = "send",
                ![h].counts = getReactions(reactions, ch[h].episode.id)]
    /\ UNCHANGED << series, reactions, lastNotifiedEpisodes, checks, tvdb,
                    delivered, rh, dh, catalogue, outcome >>

\* a latest_episode that marks the episode it has shown as notified
LatestSendReturnsMarking(h) ==
    /\ ch[h].pc = "send"
    /\ lastNotifiedEpisodes' =
         [lastNotifiedEpisodes EXCEPT ![ch[h].seriesId] = ch[h].episode.id]
    /\ ch' = [ch EXCEPT ![h] = Finish("replied")]
    /\ UNCHANGED << series, reactions, checks, tvdb, delivered, rh, dh,
                    catalogue, outcome >>

\* lines 139-150 and 188: the asking chat accepts the photo and the handler
\* ends; line 158 belongs to the scheduler's check and is not run here
LatestSendReturns(h) ==
    /\ ch[h].pc = "send"
    /\ ch' = [ch EXCEPT ![h] = Finish("replied")]
    /\ UNCHANGED << series, reactions, lastNotifiedEpisodes, checks, tvdb,
                    delivered, rh, dh, catalogue, outcome >>

ListCommands == {"list_series", "back_to_list"}

\* lines 196 and 240: the handler starts and awaits find().toArray()
ListSeries(h, command) ==
    /\ ch[h].pc \in Finished
    /\ command \in ListCommands
    /\ ch' = [ch EXCEPT ![h] = Command("find", command, "", Null, NoCounts)]
    /\ UNCHANGED << series, reactions, lastNotifiedEpisodes, checks, tvdb,
                    delivered, rh, dh, catalogue, outcome >>

\* lines 197-202 and 241-246: the list arrives; an empty list is answered
\* with a reply, otherwise the handler asks the name of every series
ListFindReturns(h) ==
    /\ ch[h].pc = "find"
    /\ ch' = [ch EXCEPT ![h] =
                IF Len(series) = 0
                THEN Finish("replied")
                ELSE [ch[h] EXCEPT !.pc = "names"]]
    /\ UNCHANGED << series, reactions, lastNotifiedEpisodes, checks, tvdb,
                    delivered, rh, dh, catalogue, outcome >>

\* lines 201-205 and 245-249: every fetchSeriesName has returned a name or,
\* its failure caught (lines 96-99), 'Unknown Series'; list_series awaits
\* its reply and back_to_list its editMessageText
ListNamesReturn(h) ==
    /\ ch[h].pc = "names"
    /\ ch' = [ch EXCEPT ![h].pc =
                IF ch[h].command = "list_series" THEN "reply" ELSE "edit"]
    /\ UNCHANGED << series, reactions, lastNotifiedEpisodes, checks, tvdb,
                    delivered, rh, dh, catalogue, outcome >>

\* lines 211-212: a series button is tapped; the handler awaits fetchSeriesName
SelectSeries(h, seriesId) ==
    /\ ch[h].pc \in Finished
    /\ ch' = [ch EXCEPT ![h] =
                Command("name", "series", seriesId, Null, NoCounts)]
    /\ UNCHANGED << series, reactions, lastNotifiedEpisodes, checks, tvdb,
                    delivered, rh, dh, catalogue, outcome >>

\* lines 212-214: the name, or 'Unknown Series', arrives and the handler
\* awaits editMessageText
SelectNameReturns(h) ==
    /\ ch[h].pc = "name"
    /\ ch' = [ch EXCEPT ![h].pc = "edit"]
    /\ UNCHANGED << series, reactions, lastNotifiedEpisodes, checks, tvdb,
                    delivered, rh, dh, catalogue, outcome >>

\* lines 205, 214 and 249: the chat accepts the reply or the rewritten message
ShowReturns(h) ==
    /\ ch[h].pc \in {"reply", "edit"}
    /\ ch' = [ch EXCEPT ![h] =
                Finish(IF ch[h].pc = "reply" THEN "replied" ELSE "edited")]
    /\ UNCHANGED << series, reactions, lastNotifiedEpisodes, checks, tvdb,
                    delivered, rh, dh, catalogue, outcome >>

\* an awaited store or chat call (getReactions, sendPhoto, find, the reply,
\* the edit) rejects: nothing catches it and the handler ends there.  The
\* provider calls do not end a handler: fetchLatestEpisode and
\* fetchSeriesName catch their failures
CommandRejects(h) ==
    /\ ch[h].pc \in {"tally", "send", "find", "reply", "edit"}
    /\ ch' = [ch EXCEPT ![h] = Finish("failed")]
    /\ UNCHANGED << series, reactions, lastNotifiedEpisodes, checks, tvdb,
                    delivered, rh, dh, catalogue, outcome >>

-----------------------------------------------------------------------------
(* Specifications *)

IdleCheck == Check("idle", "", Null, NoCounts)

NoCatalogue == [summary |-> NoData, season |-> [n \in 1 .. MaxSeasons |-> NoData]]

\* the process has just started: nothing is in flight and the watermark is
\* the empty object of line 30
Started ==
    /\ lastNotifiedEpisodes = [s \in Series |-> Undefined]
    /\ checks = [c \in 1 .. MaxChecks |-> IdleCheck]
    /\ delivered = {}
    /\ rh = [h \in RHandlers |-> Rest("idle")]
    /\ dh = [h \in DHandlers |-> Quiet("idle")]
    /\ ch = [h \in CHandlers |-> Finish("idle")]
    /\ outcome = Pending

InitReactions ==
    /\ Started
    /\ series = << >>
    /\ reactions \in PersistedReactions
    /\ tvdb = [s \in Series |-> 0]
    /\ catalogue = NoCatalogue

NextReactions ==
    \/ \E h \in RHandlers, data \in Buttons, user \in Users : Tap(h, data, user)
    \/ \E h \in RHandlers : FindOneReturns(h)
    \/ \E h \in RHandlers : WriteReturns(h)
    \/ \E h \in RHandlers : AggregateReturns(h)
    \/ \E h \in RHandlers, ok \in BOOLEAN : EditReturns(h, ok)
    \/ \E h \in RHandlers : StoreRejects(h)

SpecReactions == InitReactions /\ [][NextReactions]_vars

\* a tap arrives only when no handler of the same user on the same episode is
\* still between its findOne and its write
TapSerial(h, data, user) ==
    /\ \A g \in RHandlers :
          rh[g].pc \in {"findOne", "write"} =>
             ~(rh[g].episodeId = MatchEpisodeId(data) /\ rh[g].userId = user)
    /\ Tap(h, data, user)

NextSerial ==
    \/ \E h \in RHandlers, data \in Buttons, user \in Users : TapSerial(h, data, user)
    \/ \E h \in RHandlers : FindOneReturns(h)
    \/ \E h \in RHandlers : WriteReturns(h)
    \/ \E h \in RHandlers : AggregateReturns(h)
    \/ \E h \in RHandlers, ok \in BOOLEAN : EditReturns(h, ok)
    \/ \E h \in RHandlers : StoreRejects(h)

SpecSerial == InitReactions /\ [][NextSerial]_vars

\* fetchLatestEpisode is called on one catalogue
InitResolver ==
    /\ Started
    /\ series = << >>
    /\ reactions = << >>
    /\ tvdb = [s \in Series |-> 0]
    /\ \E summary \in SummaryResponses :
         \E g \in [Listed(summary) -> SeasonShapes] :
            catalogue = Catalogue(0, summary, g)

ResolveCall ==
    /\ outcome = Pending
    /\ outcome' = fetchLatestEpisode(catalogue)
    /\ UNCHANGED << series, reactions, lastNotifiedEpisodes, checks, tvdb,
                    delivered, rh, dh, catalogue, ch >>

NextResolver == ResolveCall

SpecResolver == InitResolver /\ [][NextResolver]_vars

\* what the series collection may hold when the process starts
PersistedSeries ==
    { << [seriesId |-> "s1"] >>, << [seriesId |-> "s1"], [seriesId |-> "s2"] >> }

Init ==
    /\ Started
    /\ series \in PersistedSeries
    /\ reactions \in PersistedReactions
    /\ tvdb = [s \in Series |-> 0]
    /\ catalogue = NoCatalogue

Next ==
    \/ Tick
    \/ \E c \in Slots : FetchReturns(c)
    \/ \E c \in Slots : TallyReturns(c)
    \/ \E c \in Slots : TallyRejects(c)
    \/ \E c \in Slots : SendReturns(c)
    \/ \E c \in Slots : SendRejects(c)
    \/ \E s \in Series : Publish(s)

Spec == Init /\ [][Next]_vars

\* the scheduler with the runtime's guarantees: node-cron fires the callback
\* every minute, and every awaited call of a check settles, by returning or
\* by rejecting
Fairness ==
    /\ WF_vars(Tick)
    /\ \A c \in Slots :
          /\ WF_vars(FetchReturns(c))
          /\ WF_vars(TallyReturns(c) \/ TallyRejects(c))
          /\ WF_vars(SendReturns(c) \/ SendRejects(c))

\* one tracked series, polled for as long as the process runs
InitFair ==
    /\ Started
    /\ series = << [seriesId |-> "s1"] >>
    /\ reactions = << >>
    /\ tvdb = [s \in Series |-> 0]
    /\ catalogue = NoCatalogue

NextFair ==
    \/ Tick
    \/ \E c \in Slots : FetchReturns(c)
    \/ \E c \in Slots : TallyReturns(c)
    \/ \E c \in Slots : TallyRejects(c)
    \/ \E c \in Slots : SendReturns(c)
    \/ \E c \in Slots : SendRejects(c)
    \/ \E k \in 1 .. Len(series) : Publish(series[k].seriesId)

SpecFair == InitFair /\ [][NextFair]_vars /\ Fairness

\* a process start that finds the watermark of the run before
RestartKeepingWatermark ==
    /\ checks' = [c \in Slots |-> IdleCheck]
    /\ rh' = [h \in RHandlers |-> Rest("idle")]
    /\ dh' = [h \in DHandlers |-> Quiet("idle")]
    /\ ch' = [h \in CHandlers |-> Finish("idle")]
    /\ UNCHANGED << series, reactions, lastNotifiedEpisodes, tvdb, delivered,
                    catalogue, outcome >>

\* the process ends and is started again: whatever was in flight is gone,
\* line 30 makes a new empty watermark, the collections and the chat keep
\* what they hold
Restart ==
    /\ lastNotifiedEpisodes' = [s \in Series |-> Undefined]
    /\ checks' = [c \in Slots |-> IdleCheck]
    /\ rh' = [h \in RHandlers |-> Rest("idle")]
    /\ dh' = [h \in DHandlers |-> Quiet("idle")]
    /\ ch' = [h \in CHandlers |-> Finish("idle")]
    /\ UNCHANGED << series, reactions, tvdb, delivered, catalogue, outcome >>

\* the scheduler of one tracked series, across restarts of the process
InitRestart ==
    /\ Started
    /\ series = << [seriesId |-> "s1"] >>
    /\ reactions \in PersistedReactions
    /\ tvdb = [s \in Series |-> 0]
    /\ catalogue = NoCatalogue

NextRestart ==
    \/ NextFair
    \/ Restart

SpecRestart == InitRestart /\ [][NextRestart]_vars

\* no handler of a chat update is running
ChatIdle ==
    /\ \A h \in RHandlers : rh[h].pc \in Resting
    /\ \A h \in DHandlers : dh[h].pc \in Quieted
    /\ \A h \in CHandlers : ch[h].pc \in Finished

\* the whole bot from its start to the end of its first tick and of its
\* first reaction, its first series update and its first command or list
\* update, the chat sending one update at a time.  The provider lists the
\* catalogue of each series up to the last episode but one.
InitBot ==
    /\ Started
    /\ series \in PersistedSeries
    /\ reactions \in PersistedReactions
    /\ tvdb = [s \in Series |-> MaxPublished - 1]
    /\ catalogue = NoCatalogue

\* the first update of its kind arrives while no other update is handled
FirstReaction == ChatIdle /\ rh["h1"].pc = "idle"
FirstSeriesUpdate == ChatIdle /\ dh["d1"].pc = "idle"
FirstCommand == ChatIdle /\ ch["c1"].pc = "idle"

NextBot ==
    \/ (\A c \in Slots : checks[c].pc = "idle") /\ Tick
    \/ \E c \in Slots : FetchReturns(c)
    \/ \E c \in Slots : TallyReturns(c)
    \/ \E c \in Slots : TallyRejects(c)
    \/ \E c \in Slots : SendReturns(c)
    \/ \E c \in Slots : SendRejects(c)
    \/ \E data \in Buttons, user \in Users : FirstReaction /\ Tap("h1", data, user)
    \/ FindOneReturns("h1")
    \/ WriteReturns("h1")
    \/ AggregateReturns("h1")
    \/ \E ok \in BOOLEAN : EditReturns("h1", ok)
    \/ StoreRejects("h1")
    \/ \E s \in AddArguments : FirstSeriesUpdate /\ AddSeries("d1", s)
    \/ AddFindOneReturns("d1")
    \/ AddInsertReturns("d1")
    \/ \E s \in Series : FirstSeriesUpdate /\ RemoveSeries("d1", s)
    \/ DeleteReturns("d1")
    \/ RemoveEditReturns("d1")
    \/ DirectoryRejects("d1")
    \/ \E s \in AddArguments : FirstCommand /\ LatestEpisode("c1", s)
    \/ LatestFetchReturns("c1")
    \/ LatestTallyReturns("c1")
    \/ LatestSendReturns("c1")
    \/ \E command \in ListCommands : FirstCommand /\ ListSeries("c1", command)
    \/ ListFindReturns("c1")
    \/ ListNamesReturn("c1")
    \/ \E s \in Series : FirstCommand /\ SelectSeries("c1", s)
    \/ SelectNameReturns("c1")
    \/ ShowReturns("c1")
    \/ CommandRejects("c1")

SpecBot == InitBot /\ [][NextBot]_vars

InitDirectory ==
    /\ Started
    /\ series \in { << >> } \cup PersistedSeries
    /\ reactions = << >>
    /\ tvdb = [s \in Series |-> 0]
    /\ catalogue = NoCatalogue

NextDirectory ==
    \/ \E h \in DHandlers, s \in AddArguments : AddSeries(h, s)
    \/ \E h \in DHandlers : AddFindOneReturns(h)
    \/ \E h \in DHandlers : AddInsertReturns(h)
    \/ \E h \in DHandlers, s \in Series : RemoveSeries(h, s)
    \/ \E h \in DHandlers : DeleteReturns(h)
    \/ \E h \in DHandlers : RemoveEditReturns(h)
    \/ \E h \in DHandlers : DirectoryRejects(h)

SpecDirectory == InitDirectory /\ [][NextDirectory]_vars

\* the commands of the chat: add_series, latest_episode and list_series, with
\* every series of the provider holding its full catalogue
InitCommands ==
    /\ Started
    /\ series \in { << >> } \cup PersistedSeries
    /\ reactions = << >>
    /\ tvdb = [s \in Series |-> MaxPublished]
    /\ catalogue = NoCatalogue

NextCommands ==
    \/ \E h \in DHandlers, s \in AddArguments : AddSeries(h, s)
    \/ \E h \in DHandlers : AddFindOneReturns(h)
    \/ \E h \in DHandlers : AddInsertReturns(h)
    \/ \E h \in DHandlers : DirectoryRejects(h)
    \/ \E h \in CHandlers, s \in AddArguments : LatestEpisode(h, s)
    \/ \E h \in CHandlers : LatestFetchReturns(h)
    \/ \E h \in CHandlers : LatestTallyReturns(h)
    \/ \E h \in CHandlers : LatestSendReturns(h)
    \/ \E h \in CHandlers : ListSeries(h, "list_series")
    \/ \E h \in CHandlers : ListFindReturns(h)
    \/ \E h \in CHandlers : ListNamesReturn(h)
    \/ \E h \in CHandlers : ShowReturns(h)
    \/ \E h \in CHandlers : CommandRejects(h)

SpecCommands == InitCommands /\ [][NextCommands]_vars

-----------------------------------------------------------------------------
(* Claims about the resolver, under SpecResolver *)

\* the seasons the summary of the catalogue lists
AiredSeasons(cat) == Listed(cat.summary)

\* an episode is eligible when title, synopsis and thumbnail are all present
HasAllFields(ep) ==
    ep.episodeName /= "" /\ ep.overview /= "" /\ ep.filename /= ""

\* the places of the eligible episodes in the provider's list of season n
EligiblePlaces(cat, n) ==
    { i \in 1 .. Len(cat.season[n].data) : HasAllFields(cat.season[n].data[i]) }

\* the aired seasons with at least one eligible episode
SeasonsWithEligible(cat) ==
    { n \in AiredSeasons(cat) : EligiblePlaces(cat, n) /= {} }

\* the last eligible episode of the newest season that has one
LatestEligible(cat) ==
    IF SeasonsWithEligible(cat) = {} THEN Null
    ELSE LET n == Max(SeasonsWithEligible(cat))
         IN  cat.season[n].data[Max(EligiblePlaces(cat, n))]

\* the seasons the call asked the provider for
SeasonsFetched ==
    { outcome.fetched[i].season :
        i \in { j \in 1 .. Len(outcome.fetched) : outcome.fetched[j].what = "season" } }

\* whether the provider call f fails on the catalogue
FetchFails(cat, f) ==
    IF f.what = "summary" THEN cat.summary.kind = "throw"
    ELSE cat.season[f.season].kind = "throw"

FailedFetches ==
    { i \in 1 .. Len(outcome.fetched) : FetchFails(catalogue, outcome.fetched[i]) }

\* C4: when no provider call of the run fails, fetchLatestEpisode returns the
\* last eligible episode, in provider order, of the newest aired season that
\* has an eligible episode; it asks for exactly the aired seasons from the
\* newest down to that one (all of them when none has an eligible episode),
\* and it returns null exactly when no aired season has an eligible episode.
C4_ResolveLatest ==
    (outcome /= Pending /\ FailedFetches = {}) =>
        /\ outcome.value = LatestEligible(catalogue)
        /\ (outcome.value = Null) <=> (SeasonsWithEligible(catalogue) = {})
        /\ SeasonsFetched =
             IF SeasonsWithEligible(catalogue) = {} THEN AiredSeasons(catalogue)
             ELSE { n \in AiredSeasons(catalogue) :
                      n >= Max(SeasonsWithEligible(catalogue)) }

\* a newer season holding only placeholders was skipped, an older season
\* with an eligible episode was not consulted, and the episode returned is
\* followed by a placeholder in its own season
C4_Witness ==
    /\ outcome /= Pending
    /\ FailedFetches = {}
    /\ outcome.value /= Null
    /\ \E n \in AiredSeasons(catalogue) :
          /\ n > outcome.value.airedSeason
          /\ Len(catalogue.season[n].data) > 0
    /\ \E n \in SeasonsWithEligible(catalogue) : n < outcome.value.airedSeason
    /\ outcome.value.airedEpisodeNumber
          < Len(catalogue.season[outcome.value.airedSeason].data)

\* C5: when the summary fetch or a season fetch of a call fails, the call
\* returns null and lets no exception out, the failed fetch is the last
\* provider call of the run, and no provider call is made twice.
C5_FailureIsNotFound ==
    (outcome /= Pending /\ FailedFetches /= {}) =>
        /\ outcome.value = Null
        /\ ~outcome.thrown
        /\ FailedFetches = {Len(outcome.fetched)}
        /\ \A i, j \in 1 .. Len(outcome.fetched) :
              outcome.fetched[i] = outcome.fetched[j] => i = j

\* the fetch of the newest season failed while an older aired season has an
\* eligible episode
C5_Witness ==
    /\ outcome /= Pending
    /\ outcome.caught
    /\ Len(outcome.fetched) >= 2
    /\ SeasonsWithEligible(catalogue) /= {}

-----------------------------------------------------------------------------
(* Claims about the reaction store *)

\* the ids, as the handler reads them, of the episodes that can be tapped
TapEpisodes == { MatchEpisodeId(b) : b \in Buttons }

\* the places of the documents of the episode whose reaction is r; an episode
\* is the same episode whether its id is held as a number or as a string
RecordsOf(coll, episodeId, r) ==
    { i \in 1 .. Len(coll) :
        coll[i].episodeId.v = episodeId.v /\ coll[i].reaction = r }

CountOf(coll, episodeId, r) == Cardinality(RecordsOf(coll, episodeId, r))

\* C1: the reaction store holds at most one document per (episodeId, userId).
C1_OnePerUserEpisode ==
    \A e \in TapEpisodes, u \in Users :
        Cardinality(Matching(reactions, e, u)) <= 1

\* C6: in every reachable store, applying the same (episodeId, userId,
\* reaction) twice gives the documents and the tally that applying it once
\* gives.
C6_Idempotent ==
    (\A h \in RHandlers : rh[h].pc \in Resting) =>
    \A b \in Buttons, u \in Users :
        LET e == MatchEpisodeId(b)
            once == applyReaction(reactions, e, u, b.reaction)
            twice == applyReaction(once, e, u, b.reaction)
        IN  /\ twice = once
            /\ getReactions(twice, e) = getReactions(once, e)

\* a handler took the early return on a resubmitted reaction, in a store that
\* holds two documents of one user on one episode
C6_Witness ==
    /\ \A h \in RHandlers : rh[h].pc \in Resting
    /\ \E h \in RHandlers : rh[h].pc = "silent"
    /\ \E e \in TapEpisodes, u \in Users :
          Cardinality(Matching(reactions, e, u)) = 2

\* the handler h completes, in this step, the store call that settles its tap
Settles(h) ==
    \/ rh[h].pc = "findOne" /\ rh'[h].pc = "silent"
    \/ rh[h].pc = "write" /\ rh'[h].pc = "aggregate"

\* C7: when taps of one user on one episode do not overlap, a tap of r2 by a
\* user whose document holds r1 /= r2 takes one from the count of r1, adds
\* one to the count of r2, leaves the third count and the number of
\* documents of the episode as they were; and once a tap has settled, the
\* user's only document for the episode holds the reaction tapped.
C7_Overwrite ==
    [][\A h \in RHandlers :
         LET e == rh[h].episodeId
             u == rh[h].userId
             r2 == rh[h].reaction
         IN  /\ (rh[h].pc = "write" /\ rh[h].op = "updateOne"
                   /\ rh'[h].pc = "aggregate") =>
                  LET r1 == findOne(reactions, e, u).reaction IN
                  /\ r1 /= r2
                  /\ CountOf(reactions', e, r1) = CountOf(reactions, e, r1) - 1
                  /\ CountOf(reactions', e, r2) = CountOf(reactions, e, r2) + 1
                  /\ \A r \in Reactions \ {r1, r2} :
                        CountOf(reactions', e, r) = CountOf(reactions, e, r)
                  /\ Len(reactions') = Len(reactions)
             /\ Settles(h) =>
                  /\ Cardinality(Matching(reactions', e, u)) = 1
                  /\ findOne(reactions', e, u).reaction = r2
      ]_vars

\* an overwrite has been written for an episode on which another user has a
\* document too
C7_Witness ==
    \E h \in RHandlers :
        /\ rh[h].pc = "aggregate"
        /\ rh[h].op = "updateOne"
        /\ \E u1, u2 \in Users :
              /\ u1 /= u2
              /\ Matching(reactions, rh[h].episodeId, u1) /= {}
              /\ Matching(reactions, rh[h].episodeId, u2) /= {}

-----------------------------------------------------------------------------
(* Claims about the scheduler, under Spec *)

Running(c) == checks[c].pc \notin Ended

\* C2: when fetchLatestEpisode returns to a check of series S, the check goes
\* on to dispatch exactly when an episode was resolved and its id differs
\* from the watermark entry of S (an absent entry differs from every id);
\* otherwise it ends there, and in either case the step leaves the watermark
\* and the delivered notifications as they were.  So a check of S that
\* resolves E while the watermark of S is E dispatches nothing.
C2_DispatchOnlyIfNew ==
    [][\A c \in Slots :
         (checks[c].pc = "fetch" /\ checks'[c].pc /= "fetch") =>
            LET resolved == checks'[c].episode
                mark == lastNotifiedEpisodes[checks[c].seriesId]
            IN  /\ checks'[c].pc \in {"tally", "nothing"}
                /\ (checks'[c].pc = "tally") <=>
                      (resolved /= Null /\ resolved.id /= mark)
                /\ lastNotifiedEpisodes' = lastNotifiedEpisodes
                /\ delivered' = delivered
      ]_vars

\* a check of a series resolved the episode the watermark of the series
\* already holds, and ended without a dispatch
C2_Witness ==
    \E c \in Slots :
        /\ checks[c].pc = "nothing"
        /\ checks[c].episode /= Null
        /\ lastNotifiedEpisodes[checks[c].seriesId] = checks[c].episode.id

\* C3: the watermark of a series holds only ids of episodes whose photo the
\* chat accepted; it changes only in the step in which the sendPhoto of a
\* check of that series returns, to that check's episode; and a step in which
\* getReactions or sendPhoto rejects leaves it as it was.
C3_WatermarkAfterDispatch ==
    /\ [](\A s \in Series :
            lastNotifiedEpisodes[s] /= Undefined =>
               lastNotifiedEpisodes[s] \in delivered)
    /\ [][\A s \in Series :
            lastNotifiedEpisodes'[s] /= lastNotifiedEpisodes[s] =>
               \E c \in Slots :
                  /\ checks[c].pc = "send"
                  /\ checks[c].seriesId = s
                  /\ checks'[c].pc = "notified"
                  /\ lastNotifiedEpisodes'[s] = checks[c].episode.id
         ]_vars
    /\ [][(\E c \in Slots : Running(c) /\ checks'[c].pc = "failed") =>
            lastNotifiedEpisodes' = lastNotifiedEpisodes
         ]_vars

\* a check whose dispatch failed has ended while the watermark of its series
\* does not hold its episode
C3_Witness ==
    \E c \in Slots :
        /\ checks[c].pc = "failed"
        /\ lastNotifiedEpisodes[checks[c].seriesId] /= checks[c].episode.id

\* C8: the tally a notification is about to show equals, for each reaction,
\* the number of documents of the episode in the store.
C8_TallyMatchesStore ==
    \A c \in Slots :
        checks[c].pc = "send" =>
           \A r \in Reactions :
              checks[c].counts[r] = CountOf(reactions, checks[c].episode.id, r)

\* the number of documents of the tracked series seriesId
Tracked(seriesId) ==
    Cardinality({ k \in 1 .. Len(series) : series[k].seriesId = seriesId })

\* the step starts a check in slot c
Starts(c) == ~Running(c) /\ checks'[c].pc = "fetch"

-----------------------------------------------------------------------------
(* Claims about the series collection, under SpecDirectory *)

\* C10: the series collection never holds two documents with one seriesId.
C10_UniqueSeries == \A s \in Series : Tracked(s) <= 1


\* C11: when the findOne of an add_series handler returns while the id is in
\* the collection, the handler ends with the reply of line 179 and the
\* collection is as it was.
C11_AlreadyTracked ==
    [][\A h \in DHandlers :
          ( /\ dh[h].pc = "findOne"
            /\ Tracked(dh[h].seriesId) > 0
            /\ dh'[h].pc \notin {"findOne", "failed"} ) =>
              /\ dh'[h].pc = "rejected"
              /\ series' = series
      ]_vars

\* one add_series has added an id and another, for the same id, was rejected
\* with the id still tracked once
C11_Witness ==
    \E g, h \in DHandlers :
        /\ dh[g].pc = "added"
        /\ dh[h].pc = "rejected"
        /\ dh[h].seriesId \in Series
        /\ Tracked(dh[h].seriesId) = 1

\* C12: when the deleteOne of a remove handler returns while the id is not
\* in the collection, the collection is as it was and the handler does not
\* go on to report the removal as it does for a tracked id.
C12_NotTracked ==
    [][\A h \in DHandlers :
          ( /\ dh[h].pc = "deleteOne"
            /\ Tracked(dh[h].seriesId) = 0
            /\ dh'[h].pc \notin {"deleteOne", "failed"} ) =>
              /\ series' = series
              /\ dh'[h].pc /= "editText"
      ]_vars


-----------------------------------------------------------------------------
(* Claims about the commands, under SpecCommands *)

\* the commands a user types
Commands == {"latest_episode", "list_series"}

\* C13: no run of add_series, latest_episode or list_series ends without a
\* reply: none of them goes from an awaited call to its end with nothing
\* sent to the chat.
C13_AlwaysReplies ==
    [][ /\ \A h \in DHandlers :
              dh[h].pc \in {"findOne", "insertOne"} => dh'[h].pc /= "failed"
        /\ \A h \in CHandlers :
              (ch[h].command \in Commands /\ ch[h].pc \notin Finished) =>
                 ch'[h].pc /= "failed"
      ]_vars


-----------------------------------------------------------------------------
(* Claims about the answers of the reaction handler, under SpecReactions *)

\* C14: every run of the reaction handler whose store calls succeeded ends
\* with the toast of answerCbQuery, whichever branch it took.
C14_EveryTapAnswered ==
    \A h \in RHandlers :
        rh[h].pc \in Resting \ {"idle", "failed"} =>
           rh[h].pc \in {"answered", "unrefreshed"}

\* C16: when the edit of the button row settles, rejected or not, the
\* reactions collection is as the handler's write left it and the handler
\* ends with the toast.
C16_EditFailureKeepsStore ==
    [][\A h \in RHandlers :
          (rh[h].pc = "edit" /\ rh'[h].pc /= "edit") =>
             /\ reactions' = reactions
             /\ rh'[h].pc \in {"answered", "unrefreshed"}
      ]_vars

\* a handler has ended after a rejected edit and the documents of the
\* episode it was about are in the collection
C16_Witness ==
    \E h \in RHandlers :
        /\ rh[h].pc = "unrefreshed"
        /\ \E k \in 1 .. Len(reactions) : reactions[k].episodeId \in TapEpisodes


-----------------------------------------------------------------------------
(* Claims about repeated and retried notifications, under Spec *)

\* C15: no episode is delivered twice in one run of the process: a check
\* whose photo is accepted delivers an episode that was not delivered before.
C15_OneDispatchPerEpisode ==
    [][\A c \in Slots :
          (checks[c].pc = "send" /\ checks'[c].pc = "notified") =>
             checks[c].episode.id \notin delivered
      ]_vars


\* the episode fetchLatestEpisode resolves when the provider answers with
\* the catalogue of the series holding n episodes
Resolves(s, n) == fetchLatestEpisode(SeriesCatalogue(s, n)).value

\* a step in which a provider request of a check fails: the check gets
\* something else than the catalogue resolves to
ProviderFails ==
    \E c \in Slots :
        /\ checks[c].pc = "fetch"
        /\ checks'[c].pc /= "fetch"
        /\ checks'[c].episode /= Resolves(checks[c].seriesId, tvdb[checks[c].seriesId])

\* a step in which the tally read or the chat send of a check rejects
DispatchFails ==
    \E c \in Slots :
        checks[c].pc \in {"tally", "send"} /\ checks'[c].pc = "failed"

\* C17: for a tracked series, if from some point on the provider's catalogue
\* stays at n episodes resolving to E and no provider request, tally read or
\* chat send fails, then E is eventually delivered and the watermark of the
\* series eventually holds E.
C17_EventuallyNotified ==
    \A s \in Series :
      \A n \in { m \in 0 .. MaxPublished : Resolves(s, m) /= Null } :
        ( /\ [](Tracked(s) > 0)
          /\ <>[](tvdb[s] = n)
          /\ <>[][~ProviderFails /\ ~DispatchFails]_vars )
        => <>( /\ Resolves(s, n).id \in delivered
               /\ lastNotifiedEpisodes[s] = Resolves(s, n).id )

\* the watermark of a series holds an episode that was delivered after a
\* check of the series had failed and another had found nothing
C17_Witness ==
    \E s \in Series : \E c, d \in Slots :
        /\ lastNotifiedEpisodes[s] /= Undefined
        /\ lastNotifiedEpisodes[s] \in delivered
        /\ checks[c].seriesId = s /\ checks[c].pc = "notified"
        /\ checks[d].seriesId = s /\ checks[d].pc \in {"failed", "nothing"}


-----------------------------------------------------------------------------
(* Claims about restarts, under SpecRestart *)

\* a step in which the process is started again: a check that had been
\* started is back where no check has run
RestartStep ==
    \E c \in Slots : checks[c].pc /= "idle" /\ checks'[c].pc = "idle"

\* C19: a restart empties the watermark of every series and leaves both
\* collections as they were; and a check that resolves an episode for a
\* series whose watermark is empty dispatches it, delivered before or not.
C19_RestartRenotifies ==
    /\ [][RestartStep =>
            /\ \A s \in Series : lastNotifiedEpisodes'[s] = Undefined
            /\ series' = series
            /\ reactions' = reactions
         ]_vars
    /\ [][\A c \in Slots :
            ( /\ checks[c].pc = "fetch"
              /\ checks'[c].pc \notin {"fetch", "idle"}
              /\ checks'[c].episode /= Null
              /\ lastNotifiedEpisodes[checks[c].seriesId] = Undefined ) =>
                checks'[c].pc = "tally"
         ]_vars
    /\ [][\A c \in Slots :
            (checks[c].pc = "send" /\ checks'[c].pc = "notified") =>
               /\ checks[c].episode.id \in delivered'
               /\ lastNotifiedEpisodes'[checks[c].seriesId] = checks[c].episode.id
         ]_vars

\* after a restart, with the watermark empty and the reactions of the run
\* before still in the collection, a check is sending the episode that was
\* delivered in the run before
C19_Witness ==
    \E c \in Slots :
        /\ checks[c].pc = "send"
        /\ checks[c].episode.id \in delivered
        /\ lastNotifiedEpisodes[checks[c].seriesId] = Undefined
        /\ Len(reactions) > 0


-----------------------------------------------------------------------------
(* Claims about what each operation leaves alone, under SpecBot *)

\* C18: the watermark entry of a series changes only in the step in which a
\* check of that series has its photo accepted; no handler of a chat update
\* and no check of another series changes it.
C18_WatermarkOwner ==
    [][\A s \in Series :
          lastNotifiedEpisodes'[s] /= lastNotifiedEpisodes[s] =>
             /\ \E c \in Slots :
                   /\ checks[c].seriesId = s
                   /\ checks[c].pc = "send"
                   /\ checks'[c].pc = "notified"
             /\ rh' = rh /\ dh' = dh /\ ch' = ch
      ]_vars

\* s1 has been removed and a latest_episode has shown an episode, while the
\* watermark still holds what the check of s1 wrote and the entry of s2 is
\* empty
C18_Witness ==
    /\ Tracked("s1") = 0
    /\ dh["d1"].pc = "removed"
    /\ ch["c1"].pc = "replied"
    /\ lastNotifiedEpisodes["s1"] \in delivered
    /\ lastNotifiedEpisodes["s2"] = Undefined

\* the documents of the episode, its id held as a number or as a string
RecordsFor(coll, episodeId) ==
    { i \in 1 .. Len(coll) : coll[i].episodeId.v = episodeId.v }

\* C20: the reactions collection changes only when a reaction handler's write
\* returns; no step takes a document away or changes whose document it is;
\* and the tally rendered for an episode without documents is all zero.
C20_RenderOnlyReads ==
    /\ [][reactions' /= reactions =>
            \E h \in RHandlers : rh[h].pc = "write" /\ rh'[h].pc = "aggregate"
         ]_vars
    /\ [][ /\ Len(reactions') >= Len(reactions)
           /\ \A k \in 1 .. Len(reactions) :
                 /\ reactions'[k].episodeId = reactions[k].episodeId
                 /\ reactions'[k].userId = reactions[k].userId
         ]_vars
    /\ [][ /\ \A c \in Slots :
                 ( /\ checks[c].pc = "tally" /\ checks'[c].pc = "send"
                   /\ RecordsFor(reactions, checks[c].episode.id) = {} ) =>
                     /\ checks'[c].counts = NoCounts
                     /\ RecordsFor(reactions', checks[c].episode.id) = {}
           /\ \A h \in CHandlers :
                 ( /\ ch[h].pc = "tally" /\ ch'[h].pc = "send"
                   /\ RecordsFor(reactions, ch[h].episode.id) = {} ) =>
                     /\ ch'[h].counts = NoCounts
                     /\ RecordsFor(reactions', ch[h].episode.id) = {}
         ]_vars

\* the checks of both series have announced their episodes and a
\* latest_episode has shown one; the episode of s1 has no document, and the
\* document stored before the start is where it was
C20_Witness ==
    /\ \E c \in Slots :
          /\ checks[c].pc = "notified"
          /\ checks[c].seriesId = "s1"
          /\ RecordsFor(reactions, checks[c].episode.id) = {}
    /\ ch["c1"].pc = "replied"
    /\ Len(reactions) > 0
    /\ reactions[1] = Reaction(Str(211), "u2", "love")

=============================================================================
